---- MODULE Spec2Model ----
(***************************************************************************)
(* mathviz: symbolic analysis (analysis.py) and the command-line pipeline  *)
(* (main.py).                                                              *)
(*                                                                         *)
(* Expressions are polynomials in x with integer coefficients, given as    *)
(* the sequence <<c0, c1, ..., cn>> of coefficients of x^0 .. x^n, plus a  *)
(* transcendental expression the symbolic solver cannot be relied on to    *)
(* handle, plus a malformed string.  Exact values are elements of          *)
(* Q(sqrt d): the record [a, b, d, q] stands for (a + b*sqrt(d)) / q with  *)
(* q > 0, which is closed under the arithmetic that substitution of a root *)
(* of a quadratic into a polynomial needs.                                 *)
(***************************************************************************)
EXTENDS Integers, Sequences, FiniteSets, TLC

\* ---------------------------------------------------------------- bounds
MaxSegs == 2
CoefBound == 1
MaxLibRoots == 1
GridRadius == 2

\* ------------------------------------------------------- exact arithmetic
Num(a, b, d, q) == [t |-> "alg", a |-> a, b |-> b, d |-> d, q |-> q]

Rat(n, q) == IF q < 0 THEN Num(-n, 0, 0, -q) ELSE Num(n, 0, 0, q)

NAdd(x, y, d) == Num(x.a * y.q + y.a * x.q, x.b * y.q + y.b * x.q, d, x.q * y.q)

NMul(x, y, d) == Num(x.a * y.a + x.b * y.b * d, x.a * y.b + x.b * y.a, d, x.q * y.q)

Sgn(n) == IF n > 0 THEN 1 ELSE IF n < 0 THEN -1 ELSE 0

\* v.is_real for an exact value: the sqrt(d) part is absent or d >= 0
IsRealNum(v) == v.b = 0 \/ v.d >= 0

\* sign of a real exact value (a + b*sqrt(d)) / q, q > 0
SignNum(v) ==
  LET sa == Sgn(v.a)
      sb == IF v.d = 0 THEN 0 ELSE Sgn(v.b)
  IN  IF sb = 0 THEN sa
      ELSE IF sa = 0 \/ sa = sb THEN sb
      ELSE IF v.a * v.a > v.b * v.b * v.d THEN sa
      ELSE IF v.a * v.a < v.b * v.b * v.d THEN sb
      ELSE 0

\* --------------------------------------------------------- polynomials
Degree(p) ==
  LET nz == {i \in 1..Len(p) : p[i] # 0}
  IN  IF nz = {} THEN -1 ELSE (CHOOSE i \in nz : \A j \in nz : j <= i) - 1

LowZero(p) ==
  LET nz == {i \in 1..Len(p) : p[i] # 0}
  IN  IF nz = {} THEN 0 ELSE (CHOOSE i \in nz : \A j \in nz : j >= i) - 1

\* sp.diff on a polynomial: d/dx sum c_i x^i = sum i*c_i x^(i-1)
DiffPoly(p) == IF Len(p) <= 1 THEN <<0>> ELSE [i \in 1..(Len(p) - 1) |-> i * p[i + 1]]

RECURSIVE Horner(_, _, _)
Horner(p, r, i) ==
  IF i > Len(p) THEN Num(0, 0, r.d, 1)
  ELSE NAdd(Num(p[i], 0, r.d, 1), NMul(r, Horner(p, r, i + 1), r.d), r.d)

\* polynomial p evaluated exactly at the exact value r
EvalPoly(p, r) == Horner(p, r, 1)

\* roots of g0 + g1*x + g2*x^2 with (g1, g2) # (0, 0), ascending when real
QuadRoots(g0, g1, g2) ==
  IF g2 = 0 THEN <<Rat(-g0, g1)>>
  ELSE LET disc == g1 * g1 - 4 * g2 * g0
           s == IF g2 < 0 THEN -1 ELSE 1
       IN  IF disc = 0 THEN <<Rat(-g1, 2 * g2)>>
           ELSE << Num(-s * g1, -1, disc, 2 * s * g2), Num(-s * g1, 1, disc, 2 * s * g2) >>

\* sp.solve(Eq(p, 0), x) for p = x^k * g with deg g <= 2: the distinct roots
SolvePoly(p) ==
  LET k == LowZero(p)
      m == Degree(p) - k
      g == [i \in 1..3 |-> IF k + i <= Len(p) THEN p[k + i] ELSE 0]
      rest == IF m <= 0 THEN <<>> ELSE QuadRoots(g[1], g[2], g[3])
      zero == Num(0, 0, 0, 1)
      neg == SelectSeq(rest, LAMBDA r : IsRealNum(r) /\ SignNum(r) < 0)
      oth == SelectSeq(rest, LAMBDA r : ~(IsRealNum(r) /\ SignNum(r) < 0))
  IN  IF Degree(p) <= 0 THEN <<>>
      ELSE IF k = 0 THEN rest
      ELSE neg \o <<zero>> \o oth

Solvable(p) == Degree(p) - LowZero(p) <= 2

\* ------------------------------------------------ library value profiles
\* Outcome of f.subs(var, s) on an expression outside the polynomial class:
\*   real  : what v.is_real answers ("T", "F", or "N" for None)
\*   sign  : the mathematical sign of a real v
\*   cmp   : whether v > 0 and v < 0 evaluate to a bool (otherwise using the
\*           unevaluated relational in an `if` raises TypeError)
\*   lit0  : whether v is structurally the integer 0 (v != 0 is structural)
SymVal(real, sign, cmp, lit0) ==
  [t |-> "sym", real |-> real, sign |-> sign, cmp |-> cmp, lit0 |-> lit0]

RAISE == [t |-> "raise"]

SymVals ==
  { SymVal("T", 1, TRUE, FALSE), SymVal("T", -1, TRUE, FALSE),
    SymVal("T", 0, TRUE, TRUE),  SymVal("T", 0, FALSE, FALSE),
    SymVal("F", 0, FALSE, FALSE), SymVal("N", 0, FALSE, FALSE) }

\* a root the solver returns for such an expression: it carries the outcome
\* of substituting it into the next derivative and whether float(root) works
\* x is its numeric value in hundredths
LibRoot(val, fl, x) == [t |-> "lib", val |-> val, fl |-> fl, x |-> x]

LibRoots == { LibRoot(v, fl, 0) : v \in SymVals \cup {RAISE}, fl \in BOOLEAN }

IsReal(v) == IF v.t = "alg" THEN (IF IsRealNum(v) THEN "T" ELSE "F") ELSE v.real

Comparable(v) == IF v.t = "alg" THEN TRUE ELSE v.cmp

Sign(v) == IF v.t = "alg" THEN SignNum(v) ELSE v.sign

\* v != 0 as SymPy decides it: structural inequality with the integer 0
NotLiteralZero(v) == IF v.t = "alg" THEN SignNum(v) # 0 \/ ~IsRealNum(v) ELSE ~v.lit0

\* ------------------------------------------------------------ expressions
Poly(c) == [kind |-> "poly", c |-> c, num |-> TRUE, ord |-> 0]

\* an expression outside the polynomial class; cp / ip are what sp.solve does
\* on its first / second derivative, c the polynomial its samples follow, num
\* whether its lambdified form evaluates on a NumPy array
LibExpr(cp, ip, c, num) ==
  [kind |-> "lib", cp |-> cp, ip |-> ip, c |-> c, num |-> num, ord |-> 0]

Solved(sols) == [exc |-> "none", sols |-> sols]

Failed(name) == [exc |-> name, sols |-> <<>>]

\* sp.diff(expr, var)
Diff(e) == [e EXCEPT !.c = DiffPoly(e.c), !.ord = e.ord + 1]

\* sp.solve(sp.Eq(f, 0), var)
Solve(f) ==
  IF f.kind = "poly" THEN Solved(SolvePoly(f.c))
  ELSE IF f.ord = 1 THEN f.cp ELSE f.ip

\* f.subs(var, s)
Subs(f, s) == IF s.t = "lib" THEN s.val ELSE EvalPoly(f.c, s)

\* a Python str object
Str(s) == [t |-> "str", s |-> s]

Sentinel == "(Unable to solve symbolically)"

\* outcome of a call: a returned value or a propagated exception
Ret(v) == [exc |-> "none", val |-> v]

Raise(name) == [exc |-> name, val |-> <<>>]

\* SignBranch with the two extremum labels exchanged
SignBranch_Swapped(f2, s) ==
  LET val == Subs(f2, s)
  IN  IF val.t = "raise" THEN Raise("Exception")
      ELSE IF IsReal(val) = "T"
           THEN IF ~Comparable(val) THEN Raise("TypeError")
                ELSE IF Sign(val) > 0 THEN Ret("local max")
                ELSE IF Sign(val) < 0 THEN Ret("local min")
                ELSE Ret("possible inflection")
           ELSE Ret("complex")

\* SignBranch with val >= 0 in place of val > 0
SignBranch_NonStrict(f2, s) ==
  LET val == Subs(f2, s)
  IN  IF val.t = "raise" THEN Raise("Exception")
      ELSE IF IsReal(val) = "T"
           THEN IF ~Comparable(val) THEN Raise("TypeError")
                ELSE IF Sign(val) >= 0 THEN Ret("local min")
                ELSE IF Sign(val) < 0 THEN Ret("local max")
                ELSE Ret("possible inflection")
           ELSE Ret("complex")

\* analysis.py lines 66-75: the body of the try block for one root; the
\* truth value of an undecided relational raises TypeError
SignBranch(f2, s) ==
  LET val == Subs(f2, s)
  IN  IF val.t = "raise" THEN Raise("Exception")
      ELSE IF IsReal(val) = "T"
           THEN IF ~Comparable(val) THEN Raise("TypeError")
                ELSE IF Sign(val) > 0 THEN Ret("local min")
                ELSE IF Sign(val) < 0 THEN Ret("local max")
                ELSE Ret("possible inflection")
           ELSE Ret("complex")

\* ClassifyCritical without the except clause
ClassifyCritical_NoExcept(f2, s) == SignBranch(f2, s)

\* analysis.py lines 65-77: try / except Exception around the body
ClassifyCritical(f2, s) ==
  LET b == SignBranch(f2, s)
  IN  IF b.exc # "none" THEN Ret("unknown") ELSE b

\* the for loop of lines 64-78 / 98-110: one (root, label) pair per root, an
\* exception leaving a loop body leaves the function
Collect(sols, labels) ==
  IF \E i \in 1..Len(sols) : labels[i].exc # "none"
  THEN Raise(labels[CHOOSE i \in 1..Len(sols) :
                /\ labels[i].exc # "none"
                /\ \A j \in 1..(i - 1) : labels[j].exc = "none"].exc)
  ELSE Ret([i \in 1..Len(sols) |-> <<sols[i], labels[i].val>>])

\* critical_points catching ValueError only
critical_points_OnlyValueError(expr) ==
  LET f1 == Diff(expr)
      r == Solve(f1)
      f2 == Diff(f1)
  IN  IF r.exc = "ValueError" THEN Ret(<< <<Str(Sentinel), r.exc>> >>)
      ELSE IF r.exc # "none" THEN Raise(r.exc)
      ELSE Collect(r.sols, [i \in 1..Len(r.sols) |-> ClassifyCritical(f2, r.sols[i])])

\* critical_points classifying with the first derivative
critical_points_FirstDerivative(expr) ==
  LET f1 == Diff(expr)
      r == Solve(f1)
  IN  IF r.exc \in {"NotImplementedError", "ValueError"}
      THEN Ret(<< <<Str(Sentinel), r.exc>> >>)
      ELSE Collect(r.sols, [i \in 1..Len(r.sols) |-> ClassifyCritical(f1, r.sols[i])])

\* analysis.py critical_points
critical_points(expr) ==
  LET f1 == Diff(expr)
      r == Solve(f1)
      f2 == Diff(f1)
  IN  IF r.exc \in {"NotImplementedError", "ValueError"}
      THEN Ret(<< <<Str(Sentinel), r.exc>> >>)
      ELSE Collect(r.sols, [i \in 1..Len(r.sols) |-> ClassifyCritical(f2, r.sols[i])])

\* analysis.py lines 100-107: the body of the try block for one root
NonzeroBranch(f3, s) ==
  LET val3 == Subs(f3, s)
  IN  IF val3.t = "raise" THEN Raise("Exception")
      ELSE IF IsReal(val3) = "T"
           THEN IF NotLiteralZero(val3) THEN Ret("inflection")
                ELSE Ret("possible higher-order")
           ELSE Ret("complex")

\* analysis.py lines 99-109: try / except Exception around the body
ClassifyInflection(f3, s) ==
  LET b == NonzeroBranch(f3, s)
  IN  IF b.exc # "none" THEN Ret("unknown") ELSE b

\* analysis.py inflection_points
inflection_points(expr) ==
  LET f1 == Diff(expr)
      f2 == Diff(f1)
      r == Solve(f2)
      f3 == Diff(f2)
  IN  IF r.exc \in {"NotImplementedError", "ValueError"}
      THEN Ret(<< <<Str(Sentinel), r.exc>> >>)
      ELSE Collect(r.sols, [i \in 1..Len(r.sols) |-> ClassifyInflection(f3, r.sols[i])])

\* ------------------------------------------------- inputs of the analysis

RECURSIVE SeqsUpTo(_, _)
SeqsUpTo(S, n) ==
  IF n = 0 THEN {<<>>}
  ELSE LET shorter == SeqsUpTo(S, n - 1)
       IN  shorter \cup {Append(q, e) : q \in {x \in shorter : Len(x) = n - 1}, e \in S}

\* polynomials of degree <= 4 whose derivatives SolvePoly covers
Polys ==
  { Poly(c) : c \in { c \in [1..5 -> (-CoefBound)..CoefBound] :
                        /\ Solvable(DiffPoly(c))
                        /\ Solvable(DiffPoly(DiffPoly(c))) } }

LibOutcomes ==
  {Failed("NotImplementedError"), Failed("ValueError")}
    \cup {Solved(q) : q \in SeqsUpTo(LibRoots, MaxLibRoots)}

LibExprs == { LibExpr(cp, ip, <<0, 1>>, TRUE) : cp \in LibOutcomes, ip \in LibOutcomes }

\* ======================================================= main.py
\* ---------------------------------------------------------- floats
Float(m) == [t |-> "float", m |-> m]

RECURSIVE IsqrtIn(_, _, _)
\* the r with lo <= r < hi and r*r <= n < (r+1)*(r+1), by bisection
IsqrtIn(n, lo, hi) ==
  IF hi - lo <= 1 THEN lo
  ELSE LET mid == (lo + hi) \div 2
       IN  IF mid * mid <= n THEN IsqrtIn(n, mid, hi) ELSE IsqrtIn(n, lo, mid)

Isqrt(n) == IsqrtIn(n, 0, 40000)

\* float(pt) for a symbolic root, in hundredths; a non-real value raises
FloatOf(pt) ==
  IF pt.t = "str" THEN Raise("ValueError")
  ELSE IF pt.t = "lib"
  THEN IF pt.fl THEN Ret(Float(pt.x)) ELSE Raise("TypeError")
  ELSE IF ~IsRealNum(pt) THEN Raise("TypeError")
  ELSE IF pt.b = 0 \/ pt.d = 0 THEN Ret(Float((100 * pt.a) \div pt.q))
  ELSE Ret(Float((100 * pt.a + Sgn(pt.b) * Isqrt(10000 * pt.b * pt.b * pt.d)) \div pt.q))

RECURSIVE HornerFix(_, _, _)
HornerFix(c, m, i) ==
  IF i > Len(c) THEN 0 ELSE 100 * c[i] + (m * HornerFix(c, m, i + 1)) \div 100

\* sp.lambdify(x_sym, sym)(v) for a float v, in hundredths
Lambdified(sym, v) == Float(HornerFix(sym.c, v.m, 1))

\* ---------------------------------------------------------- strings
MalformedStrings == {"sin("}

\* sp.sympify on the expression strings of the model
SympifyTable ==
  [ s \in { "x**2", "-x**2", "x**3", "x**3 - 3*x", "x**3 + 3*x",
            "(x**2-2*x-1)**4", "f_unsolvable(x)", "f_partly(x)", "f_nonnumeric(x)" } |->
      CASE s = "x**2" -> Poly(<<0, 0, 1, 0, 0>>)
        [] s = "-x**2" -> Poly(<<0, 0, -1, 0, 0>>)
        [] s = "x**3" -> Poly(<<0, 0, 0, 1, 0>>)
        [] s = "x**3 - 3*x" -> Poly(<<0, -3, 0, 1, 0>>)
        [] s = "x**3 + 3*x" -> Poly(<<0, 3, 0, 1, 0>>)
        [] s = "(x**2-2*x-1)**4" ->
             LibExpr(Solved(<< LibRoot(SymVal("T", -1, TRUE, FALSE), TRUE, 100),
                               LibRoot(SymVal("T", 0, FALSE, FALSE), TRUE, -42),
                               LibRoot(SymVal("T", 0, FALSE, FALSE), TRUE, 241) >>),
                     Solved(<< LibRoot(SymVal("T", 0, FALSE, FALSE), TRUE, -42),
                               LibRoot(SymVal("T", 0, FALSE, FALSE), TRUE, 241),
                               LibRoot(SymVal("T", 1, TRUE, FALSE), TRUE, 46),
                               LibRoot(SymVal("T", -1, TRUE, FALSE), TRUE, 153) >>),
                     <<1, 8, 20, 8, -26, -8, 20, -8, 1>>, TRUE)
        [] s = "f_unsolvable(x)" ->
             LibExpr(Failed("NotImplementedError"), Failed("NotImplementedError"),
                     <<0, -1, 0, 1, 0>>, TRUE)
        [] s = "f_partly(x)" ->
             LibExpr(Solved(<<>>), Failed("ValueError"), <<0, 0, 0, 1, 0>>, TRUE)
        [] s = "f_nonnumeric(x)" ->
             LibExpr(Failed("NotImplementedError"), Failed("NotImplementedError"),
                     <<0, 1>>, FALSE) ]

\* analysis.py parse_expression
parse_expression(expr_str) ==
  IF expr_str \in DOMAIN SympifyTable THEN Ret(SympifyTable[expr_str])
  ELSE Raise("SympifyError")

\* str.strip on the segments of the model
Strip(seg) ==
  CASE seg = " " -> ""
    [] seg = " x**3 " -> "x**3"
    [] OTHER -> seg

Truthy(str) == str # ""

\* ---------------------------------------------------- sampling and search
\* np.linspace(xmin, xmax, ...) on the grid of the model: the integers
Linspace(xmin, xmax) == [j \in 1..(xmax - xmin + 1) |-> xmin + j - 1]

\* main.py _prepare_numeric
_prepare_numeric(expr, xmin, xmax, points) ==
  IF ~expr.num THEN Raise("TypeError")
  ELSE LET x == Linspace(xmin, xmax)
       IN  Ret(<< [j \in 1..Len(x) |-> Float(100 * x[j])],
                  [j \in 1..Len(x) |-> Lambdified(expr, Float(100 * x[j]))] >>)

ExtremumType(left, right) ==
  IF left < 0 /\ right > 0 THEN "local min"
  ELSE IF left > 0 /\ right < 0 THEN "local max"
  ELSE "possible inflection"

InflectionType(left, right) ==
  IF left * right < 0 THEN "inflection" ELSE "possible higher-order"

RootType(which, left, right) ==
  IF which = "critical" THEN ExtremumType(left, right) ELSE InflectionType(left, right)

RECURSIVE SignChanges(_, _, _, _)
\* roots of g on the grid x: a sample that is zero, or the midpoint of two
\* neighbouring samples of opposite sign, each labelled from the signs around
SignChanges(g, x, j, which) ==
  IF j > Len(x) THEN <<>>
  ELSE LET here == Sgn(HornerFix(g, 100 * x[j], 1))
           prev == IF j = 1 THEN 0 ELSE Sgn(HornerFix(g, 100 * x[j - 1], 1))
           next == IF j = Len(x) THEN 0 ELSE Sgn(HornerFix(g, 100 * x[j + 1], 1))
           hit == IF here = 0 THEN << <<Float(100 * x[j]), RootType(which, prev, next)>> >>
                  ELSE IF j < Len(x) /\ here * next < 0
                       THEN << <<Float(100 * x[j] + 50), RootType(which, here, next)>> >>
                       ELSE <<>>
       IN  hit \o SignChanges(g, x, j + 1, which)

\* numeric root search of f' = 0 over the sample grid between xmin and xmax
numeric_critical_points(expr, xmin, xmax, samples) ==
  IF ~expr.num THEN Raise("TypeError")
  ELSE Ret(SignChanges(DiffPoly(expr.c), Linspace(xmin, xmax), 1, "critical"))

\* numeric root search of f'' = 0 over the sample grid between xmin and xmax
numeric_inflection_points(expr, xmin, xmax, samples) ==
  IF ~expr.num THEN Raise("TypeError")
  ELSE Ret(SignChanges(DiffPoly(DiffPoly(expr.c)), Linspace(xmin, xmax), 1, "inflection"))

\* ---------------------------------------------------------- main state
Samples == 2000

Points == 600

NotCalled == [exc |-> "notcalled", val |-> <<>>]

VARIABLES
  aExpr,     \* analysis: the expression under analysis
  aCp,       \* analysis: outcome of critical_points(aExpr)
  aIp,       \* analysis: outcome of inflection_points(aExpr)
  args,      \* main: the parsed command line
  pc,        \* main: "start", "loop", "done" (returned) or "raised"
  flag3d,    \* main: current value of args.3d
  exprs,     \* main: the stripped non-empty segments of --expr
  idx,       \* main: 1-based index of the next expression of the loop
  series,    \* main: the series list
  out,       \* main: what was printed, in order
  plots,     \* main: the plot functions called, in order
  calls,     \* main: the numeric root searches called, in order
  examined,  \* main: the mode flags tested so far, in order
  exc        \* main: the exception that left main, or "none"

avars == <<aExpr, aCp, aIp>>

mvars == <<args, pc, flag3d, exprs, idx, series, out, plots, calls, examined, exc>>

vars == <<aExpr, aCp, aIp, args, pc, flag3d, exprs, idx, series, out, plots, calls, examined, exc>>

P(k) == [k |-> k]

\* ---------------------------------------------------------- command lines
Segments ==
  { "", " ", "sin(", "x**2", " x**3 ", "x**3 - 3*x", "x**3 + 3*x",
    "(x**2-2*x-1)**4", "f_unsolvable(x)", "f_partly(x)", "f_nonnumeric(x)" }

\* --expr as its split(";") segments; <<"">> is the empty or absent string
ExprArgs == SeqsUpTo(Segments, MaxSegs) \ {<<>>}

Bounds == { <<-GridRadius, GridRadius>>, <<0, GridRadius>> }

ArgRecord(cx, im, px, py, pz, tmax, ex, f3, bd) ==
  [ complex |-> cx, implicit |-> im, parametric_x |-> px, parametric_y |-> py,
    parametric_z |-> pz, tmin |-> "0", tmax |-> tmax, expr |-> ex, flag3d |-> f3,
    xmin |-> bd[1], xmax |-> bd[2], points |-> Points ]

\* command lines that reach the --expr pipeline
ExprCommandLines ==
  { ArgRecord("", "", pxy[1], pxy[2], "", "2*pi", ex, f3, bd) :
      pxy \in { <<"", "">>, <<"cos(t)", "">>, <<"", "sin(t)">> },
      ex \in ExprArgs, f3 \in BOOLEAN, bd \in Bounds }

\* command lines with any combination of the mode flags
ModeCommandLines ==
  { ArgRecord(cx, im, px, py, pz, tmax, ex, f3, <<-GridRadius, GridRadius>>) :
      cx \in {"", "z**2", "sin("}, im \in {"", "x**2 + y**2 - 1", "sin("},
      px \in {"", "cos(t)", "sin("}, py \in {"", "sin(t)", "sin("},
      pz \in {"", "t"}, tmax \in {"2*pi", "sin("},
      ex \in { <<"">>, <<"x**2">> }, f3 \in {FALSE} }

AnalysisIdle ==
  /\ aExpr = Poly(<<0>>)
  /\ aCp = NotCalled
  /\ aIp = NotCalled

MainIdle ==
  /\ args = ArgRecord("", "", "", "", "", "2*pi", <<"">>, FALSE, <<0, 0>>)
  /\ pc = "done"
  /\ flag3d = FALSE
  /\ exprs = <<>>
  /\ idx = 1
  /\ series = <<>>
  /\ out = <<>>
  /\ plots = <<>>
  /\ calls = <<>>
  /\ examined = <<>>
  /\ exc = "none"

Init ==
  /\ AnalysisIdle
  /\ args \in ExprCommandLines \cup ModeCommandLines
  /\ pc = "start"
  /\ flag3d = args.flag3d
  /\ exprs = <<>>
  /\ idx = 1
  /\ series = <<>>
  /\ out = <<>>
  /\ plots = <<>>
  /\ calls = <<>>
  /\ examined = <<>>
  /\ exc = "none"

\* ---------------------------------------------------------- mode dispatch
\* ModeTests with --implicit tested before --complex
ModeTests_ImplicitFirst(a) ==
  IF Truthy(a.implicit) THEN <<"implicit">>
  ELSE IF Truthy(a.complex) THEN <<"implicit", "complex">>
  ELSE IF Truthy(a.parametric_x) /\ Truthy(a.parametric_y)
       THEN <<"implicit", "complex", "parametric">>
  ELSE <<"implicit", "complex", "parametric", "expr">>

\* main.py lines 66, 81, 95, 115: the chain of tests, each reached only when
\* the ones before it were false; the result is the tests made, in order
ModeTests(a) ==
  IF Truthy(a.complex) THEN <<"complex">>
  ELSE IF Truthy(a.implicit) THEN <<"complex", "implicit">>
  ELSE IF Truthy(a.parametric_x) /\ Truthy(a.parametric_y)
       THEN <<"complex", "implicit", "parametric">>
  ELSE <<"complex", "implicit", "parametric", "expr">>

SelectedMode(a) == ModeTests(a)[Len(ModeTests(a))]

\* a plotting-library call: it returns or raises
PlotOutcomes == {"ok", "raise"}

PlotCall(fn, data, outcome) == [fn |-> fn, data |-> data, outcome |-> outcome]

\* main.py lines 66-78
ComplexMode ==
  /\ pc = "start"
  /\ SelectedMode(args) = "complex"
  /\ examined' = ModeTests(args)
  /\ \E o \in PlotOutcomes :
       IF args.complex \in MalformedStrings
       THEN /\ o = "ok"
            /\ out' = out \o <<P("complex-header"), P("complex-failed")>>
            /\ plots' = plots
       ELSE /\ plots' = Append(plots, PlotCall("complex_plot", args.complex, o))
            /\ out' = out \o (IF o = "ok" THEN <<P("complex-header")>>
                              ELSE <<P("complex-header"), P("complex-failed")>>)
  /\ pc' = "done"
  /\ UNCHANGED <<aExpr, aCp, aIp, args, flag3d, exprs, idx, series, calls, exc>>

\* main.py lines 81-92
ImplicitMode ==
  /\ pc = "start"
  /\ SelectedMode(args) = "implicit"
  /\ examined' = ModeTests(args)
  /\ \E o \in PlotOutcomes :
       IF args.implicit \in MalformedStrings
       THEN /\ o = "ok"
            /\ out' = out \o <<P("implicit-header"), P("implicit-failed")>>
            /\ plots' = plots
       ELSE /\ plots' = Append(plots, PlotCall("implicit_plot", args.implicit, o))
            /\ out' = out \o (IF o = "ok" THEN <<P("implicit-header")>>
                              ELSE <<P("implicit-header"), P("implicit-failed")>>)
  /\ pc' = "done"
  /\ UNCHANGED <<aExpr, aCp, aIp, args, flag3d, exprs, idx, series, calls, exc>>

\* main.py _parse_float_or_expr on the --tmin / --tmax strings of the model
_parse_float_or_expr(str) ==
  CASE str = "0" -> Ret(Float(0))
    [] str = "2*pi" -> Ret(Float(628))
    [] OTHER -> Raise("ValueError")

\* main.py lines 95-112
ParametricMode ==
  /\ pc = "start"
  /\ SelectedMode(args) = "parametric"
  /\ examined' = ModeTests(args)
  /\ \E o \in PlotOutcomes :
       IF \/ _parse_float_or_expr(args.tmin).exc # "none"
          \/ _parse_float_or_expr(args.tmax).exc # "none"
          \/ args.parametric_x \in MalformedStrings
          \/ args.parametric_y \in MalformedStrings
          \/ args.parametric_z \in MalformedStrings
       THEN /\ o = "ok"
            /\ out' = out \o <<P("parametric-header"), P("parametric-failed")>>
            /\ plots' = plots
       ELSE /\ plots' = Append(plots,
                 PlotCall("parametric_plot",
                          <<args.parametric_x, args.parametric_y, args.parametric_z>>, o))
            /\ out' = out \o (IF o = "ok" THEN <<P("parametric-header")>>
                              ELSE <<P("parametric-header"), P("parametric-failed")>>)
  /\ pc' = "done"
  /\ UNCHANGED <<aExpr, aCp, aIp, args, flag3d, exprs, idx, series, calls, exc>>

\* the string --expr stands for is empty (or the flag is absent)
ExprIsEmpty(a) == a.expr = <<"">>

\* main.py lines 115-117
PrintHelp ==
  /\ pc = "start"
  /\ SelectedMode(args) = "expr"
  /\ ExprIsEmpty(args)
  /\ examined' = ModeTests(args)
  /\ out' = Append(out, P("help"))
  /\ pc' = "done"
  /\ UNCHANGED <<aExpr, aCp, aIp, args, flag3d, exprs, idx, series, plots, calls, exc>>

\* main.py line 119
SplitExprs(segs) == SelectSeq([i \in 1..Len(segs) |-> Strip(segs[i])], Truthy)

\* main.py lines 119-125
ExprSetup ==
  /\ pc = "start"
  /\ SelectedMode(args) = "expr"
  /\ ~ExprIsEmpty(args)
  /\ examined' = ModeTests(args)
  /\ exprs' = SplitExprs(args.expr)
  /\ IF flag3d /\ Len(exprs') > 1
     THEN /\ out' = Append(out, P("warn-3d-ignored"))
          /\ flag3d' = FALSE
     ELSE UNCHANGED <<out, flag3d>>
  /\ series' = <<>>
  /\ idx' = 1
  /\ pc' = "loop"
  /\ UNCHANGED <<aExpr, aCp, aIp, args, plots, calls, exc>>

\* ---------------------------------------------------------- the --expr loop
\* IsSentinel looking for a text the sentinel does not contain
IsSentinel_OtherText(res) == res # <<>> /\ res[1][1].t = "str" /\ res[1][1].s = "Unable to solve."

\* main.py lines 143, 164, 190, 213: cp and isinstance(cp[0][0], str) and
\* "Unable to solve" in cp[0][0]
IsSentinel(res) == res # <<>> /\ res[1][1].t = "str" /\ res[1][1].s = Sentinel

NumericCall(fn, expr, a) ==
  [fn |-> fn, expr |-> expr, xmin |-> a.xmin, xmax |-> a.xmax, samples |-> Samples]

RootLine(which, src, pair) ==
  [k |-> "root", which |-> which, src |-> src, pt |-> pair[1], typ |-> pair[2]]

\* main.py lines 140-160 and 162-182: what is printed for one result list;
\* num is the outcome of the numeric search the sentinel branch runs
PrintedRoots(which, res, num) ==
  IF IsSentinel(res)
  THEN <<P("numeric-search")>> \o
       (IF num.exc # "none" THEN <<P("numeric-failed")>>
        ELSE IF num.val # <<>>
             THEN [i \in 1..Len(num.val) |-> RootLine(which, "numeric", num.val[i])]
             ELSE <<P("numeric-none")>>)
  ELSE IF res # <<>>
       THEN [i \in 1..Len(res) |-> RootLine(which, "symbolic", res[i])]
       ELSE <<P("none")>>

Marker(x, y, color, shape, label) ==
  [x |-> x, y |-> y, color |-> color, shape |-> shape, label |-> label]

\* main.py lines 196-199, 206-209, 218-221, 228-231: yval, 0.0 on any error
YVal(sym, fx) ==
  IF fx.exc # "none" \/ ~sym.num THEN Float(0) ELSE Lambdified(sym, fx.val)

\* main.py line 233
LabelText(typ) ==
  IF typ \in {"inflection", "possible inflection"} THEN "inflection" ELSE typ

\* main.py lines 190-210 and 213-234: the markers of one result list, or the
\* exception float(pt) raises outside the inner try
MarkersOf(which, sym, res, num) ==
  LET color == IF which = "critical" THEN "red" ELSE "green"
      shape == IF which = "critical" THEN "o" ELSE "s"
  IN  IF IsSentinel(res)
      THEN IF num.exc # "none" THEN Ret(<<>>)
           ELSE Ret([i \in 1..Len(num.val) |->
                      Marker(num.val[i][1], YVal(sym, Ret(num.val[i][1])), color, shape,
                             IF which = "critical" THEN num.val[i][2] ELSE "inflection")])
      ELSE IF \E i \in 1..Len(res) : FloatOf(res[i][1]).exc # "none"
           THEN Raise("TypeError")
           ELSE Ret([i \in 1..Len(res) |->
                      Marker(FloatOf(res[i][1]).val, YVal(sym, FloatOf(res[i][1])),
                             color, shape,
                             IF which = "critical" THEN res[i][2] ELSE LabelText(res[i][2]))])

\* the numeric searches one call site makes: one when the result is the sentinel
SearchCalls(fn, sym, res, a) ==
  IF IsSentinel(res) THEN <<NumericCall(fn, sym, a)>> ELSE <<>>

\* main.py lines 126-236: one iteration of the loop over exprs
ProcessExpr ==
  /\ pc = "loop"
  /\ idx <= Len(exprs)
  /\ LET e == exprs[idx]
         parsed == parse_expression(e)
         sym == parsed.val
         cp == critical_points(sym)
         ip == inflection_points(sym)
         ncp == numeric_critical_points(sym, args.xmin, args.xmax, Samples)
         nip == numeric_inflection_points(sym, args.xmin, args.xmax, Samples)
         sampled == _prepare_numeric(sym, args.xmin, args.xmax, args.points)
         cpm == MarkersOf("critical", sym, cp.val, ncp)
         ipm == MarkersOf("inflection", sym, ip.val, nip)
         printed == <<[k |-> "expr-header", expr |-> sym], P("analysis")>>
                      \o PrintedRoots("critical", cp.val, ncp)
                      \o PrintedRoots("inflection", ip.val, nip)
         printCalls == SearchCalls("numeric_critical_points", sym, cp.val, args)
                         \o SearchCalls("numeric_inflection_points", sym, ip.val, args)
     IN  IF parsed.exc # "none"
         THEN /\ exc' = parsed.exc
              /\ pc' = "raised"
              /\ UNCHANGED <<out, calls, series, idx>>
         ELSE IF sampled.exc # "none"
         THEN /\ exc' = sampled.exc
              /\ pc' = "raised"
              /\ out' = out \o printed
              /\ calls' = calls \o printCalls
              /\ UNCHANGED <<series, idx>>
         ELSE IF cpm.exc # "none"
         THEN /\ exc' = cpm.exc
              /\ pc' = "raised"
              /\ out' = out \o printed
              /\ calls' = calls \o printCalls
                            \o SearchCalls("numeric_critical_points", sym, cp.val, args)
              /\ UNCHANGED <<series, idx>>
         ELSE IF ipm.exc # "none"
         THEN /\ exc' = ipm.exc
              /\ pc' = "raised"
              /\ out' = out \o printed
              /\ calls' = calls \o printCalls \o printCalls
              /\ UNCHANGED <<series, idx>>
         ELSE /\ series' = Append(series,
                   [x |-> sampled.val[1], y |-> sampled.val[2], label |-> e,
                    markers |-> cpm.val \o ipm.val])
              /\ out' = out \o printed
              /\ calls' = calls \o printCalls \o printCalls
              /\ idx' = idx + 1
              /\ UNCHANGED <<pc, exc>>
  /\ UNCHANGED <<aExpr, aCp, aIp, args, flag3d, exprs, plots, examined>>

\* ---------------------------------------------------------- plot dispatch
LoopDone == pc = "loop" /\ idx > Len(exprs)

\* main.py lines 239-257: the 3D surface, with the annotated 2D plot as the
\* fallback of the except clause
Plot3D ==
  /\ LoopDone
  /\ flag3d
  /\ IF series = <<>>
     THEN /\ exc' = "IndexError"
          /\ pc' = "raised"
          /\ out' = Append(out, P("rule"))
          /\ UNCHANGED plots
     ELSE \E o \in PlotOutcomes, o2 \in PlotOutcomes :
            IF o = "ok"
            THEN /\ o2 = "ok"
                 /\ plots' = Append(plots, PlotCall("plot_3d", series[1].label, o))
                 /\ out' = Append(out, P("rule"))
                 /\ pc' = "done"
                 /\ exc' = exc
            ELSE /\ plots' = plots \o << PlotCall("plot_3d", series[1].label, o),
                                         PlotCall("plot_2d_with_markers", series[1], o2) >>
                 /\ out' = out \o <<P("rule"), P("3d-failed")>>
                 /\ pc' = IF o2 = "ok" THEN "done" ELSE "raised"
                 /\ exc' = IF o2 = "ok" THEN exc ELSE "PlotError"
  /\ UNCHANGED <<aExpr, aCp, aIp, args, flag3d, exprs, idx, series, calls, examined>>

\* main.py lines 258-261
PlotSingle ==
  /\ LoopDone
  /\ ~flag3d
  /\ Len(series) = 1
  /\ \E o \in PlotOutcomes :
       /\ plots' = Append(plots, PlotCall("plot_2d_with_markers", series[1], o))
       /\ pc' = IF o = "ok" THEN "done" ELSE "raised"
       /\ exc' = IF o = "ok" THEN exc ELSE "PlotError"
  /\ out' = Append(out, P("rule"))
  /\ UNCHANGED <<aExpr, aCp, aIp, args, flag3d, exprs, idx, series, calls, examined>>

\* main.py lines 262-266
PlotMulti ==
  /\ LoopDone
  /\ ~flag3d
  /\ Len(series) # 1
  /\ \E o \in PlotOutcomes :
       /\ plots' = Append(plots,
            PlotCall("plot_multiple_2d",
                     [i \in 1..Len(series) |-> <<series[i].x, series[i].y, series[i].label>>],
                     o))
       /\ pc' = IF o = "ok" THEN "done" ELSE "raised"
       /\ exc' = IF o = "ok" THEN exc ELSE "PlotError"
  /\ out' = Append(out, P("rule"))
  /\ UNCHANGED <<aExpr, aCp, aIp, args, flag3d, exprs, idx, series, calls, examined>>

Next ==
  \/ ComplexMode
  \/ ImplicitMode
  \/ ParametricMode
  \/ PrintHelp
  \/ ExprSetup
  \/ ProcessExpr
  \/ Plot3D
  \/ PlotSingle
  \/ PlotMulti

Spec == Init /\ [][Next]_vars

\* ------------------------------------------------- inputs of the analysis
InitAnalysis ==
  /\ MainIdle
  /\ aExpr \in Polys \cup LibExprs
  /\ aCp = NotCalled
  /\ aIp = NotCalled

CallCriticalPoints ==
  /\ aCp = NotCalled
  /\ aCp' = critical_points(aExpr)
  /\ UNCHANGED <<aExpr, aIp>>
  /\ UNCHANGED mvars

CallInflectionPoints ==
  /\ aIp = NotCalled
  /\ aIp' = inflection_points(aExpr)
  /\ UNCHANGED <<aExpr, aCp>>
  /\ UNCHANGED mvars

NextAnalysis == CallCriticalPoints \/ CallInflectionPoints

SpecAnalysis == InitAnalysis /\ [][NextAnalysis]_vars

\* ======================================================= analysis claims
CpSolve == Solve(Diff(aExpr))

IpSolve == Solve(Diff(Diff(aExpr)))

\* value of the second derivative at the i-th root of f'
CpVal(i) == Subs(Diff(Diff(aExpr)), CpSolve.sols[i])

\* value of the third derivative at the i-th root of f''
IpVal(i) == Subs(Diff(Diff(Diff(aExpr))), IpSolve.sols[i])

EvalRaises(v) == v.t = "raise"

CompareRaises(v) == v.t # "raise" /\ IsReal(v) = "T" /\ ~Comparable(v)

XSquared == Poly(<<0, 0, 1, 0, 0>>)

MinusXSquared == Poly(<<0, 0, -1, 0, 0>>)

XCubed == Poly(<<0, 0, 0, 1, 0>>)

IsZeroRoot(s) == s.t = "alg" /\ IsRealNum(s) /\ SignNum(s) = 0

\* C1: every root of f' = 0 gets exactly one (root, label) pair, in solver
\* order, and the label follows the second derivative v at the root: an
\* exception during evaluation or comparison gives "unknown"; otherwise v
\* real and positive gives "local min", real and negative "local max", real
\* and zero "possible inflection", and v not real gives "complex".
C1_LabelBySecondDerivative ==
  (aCp # NotCalled /\ CpSolve.exc = "none") =>
    /\ aCp.exc = "none"
    /\ Len(aCp.val) = Len(CpSolve.sols)
    /\ \A i \in 1..Len(CpSolve.sols) :
         /\ aCp.val[i][1] = CpSolve.sols[i]
         /\ aCp.val[i][2] =
              IF EvalRaises(CpVal(i)) \/ CompareRaises(CpVal(i)) THEN "unknown"
              ELSE IF IsReal(CpVal(i)) # "T" THEN "complex"
              ELSE IF Sign(CpVal(i)) > 0 THEN "local min"
              ELSE IF Sign(CpVal(i)) < 0 THEN "local max"
              ELSE "possible inflection"

\* two roots with different labels were returned, in solver order
C1_Witness ==
  /\ aCp # NotCalled
  /\ CpSolve.exc = "none"
  /\ Len(CpSolve.sols) >= 2
  /\ aCp.exc = "none"
  /\ aCp.val[1][2] = "local max"
  /\ aCp.val[2][2] = "local min"

SignEvaluationError(v) ==
  /\ v.t # "raise"
  /\ \/ IsReal(v) # "T"
     \/ ~Comparable(v)

\* C4 as stated: every root whose second-derivative value is not real, or
\* has undecidable realness or sign, is labelled "complex", and no exception
\* leaves critical_points.
C4_Original ==
  (aCp # NotCalled /\ CpSolve.exc = "none") =>
    /\ aCp.exc = "none"
    /\ \A i \in 1..Len(CpSolve.sols) :
         SignEvaluationError(CpVal(i)) => aCp.val[i][2] = "complex"

\* C4 (amended): no exception leaves critical_points for any root; a value
\* that is not real or whose realness is undecided is labelled "complex",
\* while a real value whose sign cannot be decided, or a substitution that
\* raises, is labelled "unknown".
C4_ComplexOrUnknownNeverRaises ==
  (aCp # NotCalled /\ CpSolve.exc = "none") =>
    /\ aCp.exc = "none"
    /\ \A i \in 1..Len(CpSolve.sols) :
         /\ (CpVal(i).t # "raise" /\ IsReal(CpVal(i)) # "T") => aCp.val[i][2] = "complex"
         /\ (EvalRaises(CpVal(i)) \/ CompareRaises(CpVal(i))) => aCp.val[i][2] = "unknown"

\* a root whose second derivative is real with undecidable sign was labelled
C4_Witness ==
  /\ aCp # NotCalled
  /\ CpSolve.exc = "none"
  /\ \E i \in 1..Len(CpSolve.sols) : CompareRaises(CpVal(i))
  /\ aCp.exc = "none"

\* C5: critical_points(x^2) is exactly [(0, "local min")] and
\* critical_points(-x^2) is exactly [(0, "local max")].
C5_ParabolaExtrema ==
  /\ (aCp # NotCalled /\ aExpr = XSquared) =>
       /\ aCp.exc = "none"
       /\ Len(aCp.val) = 1
       /\ IsZeroRoot(aCp.val[1][1])
       /\ aCp.val[1][2] = "local min"
  /\ (aCp # NotCalled /\ aExpr = MinusXSquared) =>
       /\ aCp.exc = "none"
       /\ Len(aCp.val) = 1
       /\ IsZeroRoot(aCp.val[1][1])
       /\ aCp.val[1][2] = "local max"

C5_Witness == aCp # NotCalled /\ aExpr = MinusXSquared

\* C6: for x^3 the root 0 of f' = 0 is labelled "possible inflection" (not a
\* local min or max) and the root 0 of f'' = 0 is labelled "inflection".
C6_CubicInflection ==
  /\ (aCp # NotCalled /\ aExpr = XCubed) =>
       /\ aCp.exc = "none"
       /\ Len(aCp.val) = 1
       /\ IsZeroRoot(aCp.val[1][1])
       /\ aCp.val[1][2] = "possible inflection"
  /\ (aIp # NotCalled /\ aExpr = XCubed) =>
       /\ aIp.exc = "none"
       /\ Len(aIp.val) = 1
       /\ IsZeroRoot(aIp.val[1][1])
       /\ aIp.val[1][2] = "inflection"

C6_Witness == aCp # NotCalled /\ aIp # NotCalled /\ aExpr = XCubed

\* C10 as stated: every root of f'' = 0 is labelled "inflection" exactly when
\* the third derivative there is real and nonzero, "possible higher-order"
\* when it is real and zero, "complex" when it is not real, "unknown" when
\* evaluation raises; a solver failure yields the sentinel.
C10_Original ==
  /\ (aIp # NotCalled /\ IpSolve.exc = "none") =>
       /\ aIp.exc = "none"
       /\ Len(aIp.val) = Len(IpSolve.sols)
       /\ \A i \in 1..Len(IpSolve.sols) :
            /\ aIp.val[i][1] = IpSolve.sols[i]
            /\ aIp.val[i][2] =
                 IF EvalRaises(IpVal(i)) THEN "unknown"
                 ELSE IF IsReal(IpVal(i)) # "T" THEN "complex"
                 ELSE IF Sign(IpVal(i)) # 0 THEN "inflection"
                 ELSE "possible higher-order"
  /\ (aIp # NotCalled /\ IpSolve.exc # "none") =>
       /\ aIp.exc = "none"
       /\ Len(aIp.val) = 1
       /\ aIp.val[1][1] = Str(Sentinel)

\* ======================================================= pipeline claims
\* a step of the --expr loop is about to run on an expression that parses
InLoop == pc = "loop" /\ idx <= Len(exprs) /\ parse_expression(exprs[idx]).exc = "none"

CurSym == parse_expression(exprs[idx]).val

NewOut == SubSeq(out', Len(out) + 1, Len(out'))

NewCalls == SubSeq(calls', Len(calls) + 1, Len(calls'))

\* the (point, label) pairs printed for critical / inflection points by a step
PrintedPairs(which) ==
  LET lines == SelectSeq(NewOut, LAMBDA l : l.k = "root" /\ l.which = which)
  IN  [i \in 1..Len(lines) |-> <<lines[i].pt, lines[i].typ>>]

\* the points of the markers of one colour appended by a step
MarkerPoints(color) ==
  LET ms == SelectSeq(series'[idx].markers, LAMBDA m : m.color = color)
  IN  [i \in 1..Len(ms) |-> ms[i].x]

\* what a numeric search returns, nothing when it raises
Found(res) == IF res.exc = "none" THEN res.val ELSE <<>>

PointsOf(pairs) == [i \in 1..Len(pairs) |-> pairs[i][1]]

\* C3: in --expr mode, whenever the symbolic solve of f' = 0 (f'' = 0) fails
\* and critical_points (inflection_points) returns the sentinel, main calls
\* numeric_critical_points (numeric_inflection_points) on that expression
\* with --xmin, --xmax and 2000 samples; the roots that search finds are the
\* ones printed, and the ones that become the red (green) markers of the
\* expression's series.
C3_NumericFallback ==
  [][ InLoop =>
        /\ Solve(Diff(CurSym)).exc # "none" =>
             LET want == [fn |-> "numeric_critical_points", expr |-> CurSym,
                          xmin |-> args.xmin, xmax |-> args.xmax, samples |-> 2000]
                 roots == Found(numeric_critical_points(CurSym, args.xmin, args.xmax, 2000))
             IN  /\ \E i \in 1..Len(NewCalls) : NewCalls[i] = want
                 /\ PrintedPairs("critical") = roots
                 /\ idx' = idx + 1 => MarkerPoints("red") = PointsOf(roots)
        /\ Solve(Diff(Diff(CurSym))).exc # "none" =>
             LET want == [fn |-> "numeric_inflection_points", expr |-> CurSym,
                          xmin |-> args.xmin, xmax |-> args.xmax, samples |-> 2000]
                 roots == Found(numeric_inflection_points(CurSym, args.xmin, args.xmax, 2000))
             IN  /\ \E i \in 1..Len(NewCalls) : NewCalls[i] = want
                 /\ PrintedPairs("inflection") = roots
                 /\ idx' = idx + 1 => MarkerPoints("green") = PointsOf(roots)
    ]_vars

\* a series was appended whose markers all come from the numeric searches
C3_Witness ==
  \E i \in 1..Len(series) :
    /\ series[i].label = "f_unsolvable(x)"
    /\ Len(series[i].markers) >= 2
    /\ \E j \in 1..Len(out) : out[j].k = "root" /\ out[j].src = "numeric"

FailureWarnings == {"complex-failed", "implicit-failed", "parametric-failed", "3d-failed"}

\* C7 as stated: in every plot mode a failure raised by the plot is caught
\* and reported as a printed warning, and main returns normally.
C7_Original ==
  (\E i \in 1..Len(plots) : plots[i].outcome = "raise") =>
    /\ pc # "raised"
    /\ \E j \in 1..Len(out) : out[j].k \in FailureWarnings

\* C8 as stated: a malformed expression string never makes the parse error
\* leave main; main returns normally.
C8_Original == ~(pc = "raised" /\ exc = "SympifyError")

ModeOrder == <<"complex", "implicit", "parametric", "expr">>

\* whether the command line requests the mode
Requested(mode) ==
  CASE mode = "complex" -> args.complex # ""
    [] mode = "implicit" -> args.implicit # ""
    [] mode = "parametric" -> args.parametric_x # "" /\ args.parametric_y # ""
    [] mode = "expr" -> TRUE

PlotsOfMode(mode) ==
  CASE mode = "complex" -> {"complex_plot"}
    [] mode = "implicit" -> {"implicit_plot"}
    [] mode = "parametric" -> {"parametric_plot"}
    [] mode = "expr" -> {"plot_3d", "plot_2d_with_markers", "plot_multiple_2d"}

\* C9: one invocation takes at most one rendering path, chosen by the
\* precedence complex, implicit, parametric, expr: the flags are tested in
\* that order up to the first one requested, a higher-precedence mode returns
\* without touching the --expr pipeline, every plot call belongs to the
\* selected mode, and in --expr mode no plot function is called before every
\* expression has been parsed, analysed and sampled into a series.
C9_SinglePathByPrecedence ==
  /\ examined # <<>> =>
       \E n \in 1..4 :
         /\ examined = SubSeq(ModeOrder, 1, n)
         /\ \A j \in 1..(n - 1) : ~Requested(ModeOrder[j])
         /\ Requested(ModeOrder[n])
         /\ \A i \in 1..Len(plots) : plots[i].fn \in PlotsOfMode(ModeOrder[n])
         /\ n < 4 => /\ pc = "done"
                     /\ exprs = <<>> /\ series = <<>> /\ calls = <<>>
                     /\ Len(plots) <= 1
  /\ examined = <<>> => plots = <<>>
  /\ plots # <<>> /\ plots[1].fn \in PlotsOfMode("expr") =>
       /\ idx = Len(exprs) + 1
       /\ Len(series) = Len(exprs)
       /\ \/ Len(plots) = 1
          \/ /\ Len(plots) = 2
             /\ plots[1].fn = "plot_3d" /\ plots[1].outcome = "raise"
             /\ plots[2].fn = "plot_2d_with_markers"

\* --implicit was given together with lower-precedence flags and was plotted
C9_Witness ==
  /\ pc = "done"
  /\ args.complex = ""
  /\ args.implicit # ""
  /\ args.parametric_x # "" /\ args.parametric_y # ""
  /\ args.expr # <<"">>
  /\ Len(plots) = 1

\* --3d was given in --expr mode with more than one non-empty expression
Flag3DWithSeveral ==
  /\ SelectedMode(args) = "expr"
  /\ args.flag3d
  /\ Len(SplitExprs(args.expr)) > 1

\* C11 as stated: when --3d comes with more than one non-empty expression,
\* main prints the warning and clears the flag before any expression is
\* analysed, never calls plot_3d, and ends having rendered the comparison
\* plot: one call of plot_multiple_2d with one (x, y, label) series per
\* expression, in input order.
C11_Original ==
  (Flag3DWithSeveral /\ pc # "start") =>
    /\ \E j \in 1..Len(out) : out[j] = P("warn-3d-ignored")
    /\ ~flag3d
    /\ \A i \in 1..Len(plots) : plots[i].fn # "plot_3d"
    /\ pc \in {"done", "raised"} =>
         /\ Len(plots) = 1
         /\ plots[1].fn = "plot_multiple_2d"
         /\ Len(plots[1].data) = Len(exprs)
         /\ \A i \in 1..Len(exprs) :
              /\ plots[1].data[i][3] = exprs[i]
              /\ plots[1].data[i][1] = series[i].x
              /\ plots[1].data[i][2] = series[i].y

\* both lists of the current expression come from the symbolic solver
SolvedSymbolically ==
  /\ InLoop
  /\ Solve(Diff(CurSym)).exc = "none"
  /\ Solve(Diff(Diff(CurSym))).exc = "none"

\* the markers of one colour appended by a step
MarkersOfColor(color) == SelectSeq(series'[idx].markers, LAMBDA m : m.color = color)

\* C12 as stated: for an expression whose critical and inflection points were
\* both solved symbolically, building the markers never raises, the series
\* of the expression is appended, and its marker list holds exactly one red
\* circle per returned critical point and one green square per returned
\* inflection point, whatever the labels of the roots.
C12_Original ==
  [][ SolvedSymbolically =>
        /\ pc' = "loop"
        /\ idx' = idx + 1
        /\ Len(series') = Len(series) + 1
        /\ series'[idx].label = exprs[idx]
        /\ Len(series'[idx].markers)
             = Len(critical_points(CurSym).val) + Len(inflection_points(CurSym).val)
        /\ Len(MarkersOfColor("red")) = Len(critical_points(CurSym).val)
        /\ Len(MarkersOfColor("green")) = Len(inflection_points(CurSym).val)
        /\ \A i \in 1..Len(MarkersOfColor("red")) : MarkersOfColor("red")[i].shape = "o"
        /\ \A i \in 1..Len(MarkersOfColor("green")) : MarkersOfColor("green")[i].shape = "s"
    ]_vars

\* a segment that is empty or only whitespace
Blank(seg) == seg \in {"", " "}

\* C13 as stated: in --expr mode the empty and whitespace-only segments are
\* discarded, a plot is called with as many series as segments remain, and
\* only when at least one remains: a value that yields no expression ends in
\* no plot call and no exception, with or without --3d.
C13_Original ==
  (SelectedMode(args) = "expr" /\ ~ExprIsEmpty(args) /\ pc # "start") =>
    /\ Len(exprs) = Cardinality({i \in 1..Len(args.expr) : ~Blank(args.expr[i])})
    /\ \A j \in 1..Len(exprs) : ~Blank(exprs[j])
    /\ plots # <<>> => /\ Len(series) = Len(exprs)
                       /\ Len(exprs) >= 1
    /\ exprs = <<>> => /\ plots = <<>>
                       /\ pc # "raised"
====
